---- MODULE Spec2Model ----
(***************************************************************************)
(* Model of backend/main.py of Astro-Interact: the six-chart derivation    *)
(* (calculate_all_charts), the house bucketing (assign_houses_to_planets)  *)
(* and the aspect matcher (calculate_aspects).                             *)
(*                                                                         *)
(* Longitudes are whole degrees in 0..359.  Julian days are counted in     *)
(* hours (one day = 24 units), request times are whole hours.              *)
(***************************************************************************)
EXTENDS Integers, Sequences, FiniteSets, TLC

VARIABLES pc, request, charts, chart_names, jd_natal, jd_progressed,
          aspects, events, fpc, fin, fout

vars == <<pc, request, charts, chart_names, jd_natal, jd_progressed,
          aspects, events, fpc, fin, fout>>

orchVars == <<pc, request, charts, chart_names, jd_natal, jd_progressed,
              aspects, events>>

funVars == <<fpc, fin, fout>>

(***************************************************************************)
(* A. Constant tables                                                      *)
(***************************************************************************)
PLANET_IDS ==
  <<"Sun", "Moon", "Mercury", "Venus", "Mars", "Jupiter", "Saturn",
    "Uranus", "Neptune", "Pluto", "Chiron", "Mean North Node",
    "Mean Black Moon Lilith">>

HELIO_PLANET_IDS ==
  <<"Earth", "Mercury", "Venus", "Mars", "Jupiter", "Saturn",
    "Uranus", "Neptune", "Pluto", "Chiron">>

CHART_TYPE_ABBREVIATIONS ==
  [natal |-> "N", progressed |-> "P", transit |-> "T",
   solarArc |-> "SA", solarReturn |-> "SR", heliocentric |-> "H"]

SIGNS ==
  <<"Aries", "Taurus", "Gemini", "Cancer", "Leo", "Virgo", "Libra",
    "Scorpio", "Sagittarius", "Capricorn", "Aquarius", "Pisces">>

\* dict order of ASPECTS is the priority order of the matcher
ASPECTS ==
  <<[name |-> "Conjunction", degree |-> 0],
    [name |-> "Opposition",  degree |-> 180],
    [name |-> "Trine",       degree |-> 120],
    [name |-> "Square",      degree |-> 90],
    [name |-> "Sextile",     degree |-> 60]>>

ORBS_square_typo ==
  [major_luminary |-> [Conjunction |-> 8, Opposition |-> 8, Trine |-> 7,
                       Square |-> 27, Sextile |-> 5],
   default        |-> [Conjunction |-> 6, Opposition |-> 6, Trine |-> 5,
                       Square |-> 5, Sextile |-> 4]]

ORBS ==
  [major_luminary |-> [Conjunction |-> 8, Opposition |-> 8, Trine |-> 7,
                       Square |-> 7, Sextile |-> 5],
   default        |-> [Conjunction |-> 6, Opposition |-> 6, Trine |-> 5,
                       Square |-> 5, Sextile |-> 4]]

\* PlanetData.house: Optional[int] = None
NoHouse == 0

Abs(x) == IF x < 0 THEN -x ELSE x

(***************************************************************************)
(* B. Calendar and Julian day                                              *)
(***************************************************************************)
IsLeap(y) == y % 4 = 0 /\ (y % 100 # 0 \/ y % 400 = 0)

DaysInMonth(y, m) ==
  IF m = 2 THEN (IF IsLeap(y) THEN 29 ELSE 28)
  ELSE IF m \in {4, 6, 9, 11} THEN 30 ELSE 31

RECURSIVE DaysBeforeMonth(_, _)
DaysBeforeMonth(y, m) ==
  IF m = 1 THEN 0 ELSE DaysBeforeMonth(y, m - 1) + DaysInMonth(y, m - 1)

\* datetime.toordinal(): proleptic Gregorian day number, 0001-01-01 is day 1
ToOrdinal(date) ==
  LET y1 == date.y - 1
  IN  y1 * 365 + (y1 \div 4) - (y1 \div 100) + (y1 \div 400)
        + DaysBeforeMonth(date.y, date.m) + date.d

\* (a - b).days for two datetimes a, b given as [date, hour]: the floor of
\* the difference in days
TimedeltaDays(a, b) ==
  ((ToOrdinal(a.date) * 24 + a.hour) - (ToOrdinal(b.date) * 24 + b.hour)) \div 24

\* get_julian_day: jd_ut of swe.utc_to_jd, in hours
\* (JD = ordinal + 1721424.5 + hour/24)
get_julian_day(date, hour) == (ToOrdinal(date) + 1721424) * 24 + 12 + hour

days_after_birth_keep_time(natal_date, natal_hour, prog_date) ==
  TimedeltaDays([date |-> prog_date, hour |-> 0],
                [date |-> natal_date, hour |-> natal_hour])

\* main.py 189-191: natal_dt.replace(hour=0, minute=0, second=0)
days_after_birth(natal_date, natal_hour, prog_date) ==
  TimedeltaDays([date |-> prog_date, hour |-> 0],
                [date |-> natal_date, hour |-> 0])

(***************************************************************************)
(* C. External providers (ephemeris, geocoder)                             *)
(***************************************************************************)
\* JD (hours) of 2000-01-01 12:00 UT
J2000 == get_julian_day([y |-> 2000, m |-> 1, d |-> 1], 12)

\* sample ephemeris: longitude at J2000 and mean daily motion in degrees
EphBase ==
  [Sun |-> 280, Moon |-> 223, Mercury |-> 271, Venus |-> 241, Mars |-> 300,
   Jupiter |-> 25, Saturn |-> 40, Uranus |-> 314, Neptune |-> 303,
   Pluto |-> 251, Chiron |-> 251, Earth |-> 100]
     @@ ("Mean North Node" :> 125) @@ ("Mean Black Moon Lilith" :> 263)

EphRate ==
  [Sun |-> 1, Moon |-> 13, Mercury |-> 2, Venus |-> 1, Mars |-> 1,
   Jupiter |-> 0, Saturn |-> 0, Uranus |-> 0, Neptune |-> 0,
   Pluto |-> 0, Chiron |-> 0, Earth |-> 1]
     @@ ("Mean North Node" :> 0) @@ ("Mean Black Moon Lilith" :> 0)

\* swe.calc_ut(jd, p_id, flags): <<longitude, speed in longitude>>
\* heliocentric positions are the geocentric sample shifted by half a circle
calc_ut(jd, name, helio) ==
  LET h     == jd - J2000
      day   == h \div 24
      lon   == (EphBase[name] + ((EphRate[name] * h) \div 24)
                 + (IF helio THEN 180 ELSE 0)) % 360
      retro == /\ name \notin {"Sun", "Moon", "Earth"}
               /\ (day + EphBase[name]) % 3 = 0
  IN  <<lon, IF retro THEN -1 ELSE EphRate[name]>>

\* Nominatim geocode: None for an unknown place
Gazetteer ==
  [Tokyo |-> <<35, 139>>, Longyearbyen |-> <<78, 15>>]

\* get_lat_lon_from_location: (0.0, 0.0) when the lookup finds nothing
get_lat_lon_from_location(location) ==
  IF location \in DOMAIN Gazetteer THEN Gazetteer[location] ELSE <<0, 0>>

\* sector widths of the sample house system away from the equator
HouseOffsets ==
  <<0, 25, 55, 90, 125, 155, 180, 205, 235, 270, 305, 335>>

\* swe.houses(jd, lat, lon, b'P'): the 12 cusps
SweHouses(jd, lat, lon) ==
  LET asc == ((jd % 24) * 15 + lon + lat) % 360
  IN  [i \in 1..12 |->
         (asc + (IF lat = 0 THEN 30 * (i - 1) ELSE HouseOffsets[i])) % 360]

\* Placidus is undefined beyond the polar circles
HousesUndefined(lat) == Abs(lat) > 66

\* swe.solret_ut(jd_natal, year) on success: the first moment from the start
\* of the year at which the sample Sun is back at its natal longitude
SolretMoment(jd, year) ==
  LET jd0   == get_julian_day([y |-> year, m |-> 1, d |-> 1], 0)
      delta == (calc_ut(jd, "Sun", FALSE)[1] - calc_ut(jd0, "Sun", FALSE)[1]) % 360
  IN  jd0 + 24 * delta

(***************************************************************************)
(* D. Chart computations                                                   *)
(***************************************************************************)
\* a planets dict is the sequence of its values in insertion order, each
\* carrying its key as .name
calculate_planets(jd, planet_ids, helio) ==
  [k \in 1..Len(planet_ids) |->
     LET pos_data  == calc_ut(jd, planet_ids[k], helio)
         longitude == pos_data[1]
     IN  [name     |-> planet_ids[k],
          sign     |-> SIGNS[(longitude \div 30) + 1],
          degree   |-> longitude % 30,
          isRetro  |-> pos_data[2] < 0,
          position |-> longitude,
          house    |-> NoHouse]]

\* the inner loop of assign_houses_to_planets from sector i (0-based) on:
\* the house of the first sector that contains pos, else the old value
RECURSIVE HouseNoWrap(_, _, _, _)
HouseNoWrap(pos, house_cusps, i, old) ==
  IF i >= 12 THEN old
  ELSE LET cusp1 == house_cusps[i + 1]
           cusp2 == house_cusps[((i + 1) % 12) + 1]
       IN  IF cusp1 < cusp2 /\ cusp1 <= pos /\ pos < cusp2
           THEN i + 1
           ELSE HouseNoWrap(pos, house_cusps, i + 1, old)

RECURSIVE HouseFrom(_, _, _, _)
HouseFrom(pos, house_cusps, i, old) ==
  IF i >= 12 THEN old
  ELSE LET cusp1 == house_cusps[i + 1]
           cusp2 == house_cusps[((i + 1) % 12) + 1]
       IN  IF \/ (cusp1 < cusp2 /\ cusp1 <= pos /\ pos < cusp2)
              \/ (cusp1 > cusp2 /\ (\/ (cusp1 <= pos /\ pos < 360)
                                    \/ (0 <= pos /\ pos < cusp2)))
           THEN i + 1
           ELSE HouseFrom(pos, house_cusps, i + 1, old)

assign_houses_to_planets(planets, house_cusps) ==
  [k \in 1..Len(planets) |->
     [planets[k] EXCEPT
        !.house = HouseFrom(planets[k].position, house_cusps, 0, @)]]

\* ChartData(planets=..., houses=...); oid is the identity of the object
ChartData(oid, planets, houses) ==
  [oid |-> oid, planets |-> planets, houses |-> houses]

\* the for-loop over ASPECTS.items() from entry a on: index of the first
\* aspect whose window holds angle_diff, 0 when the loop ends without one
RECURSIVE MatchInclusive(_, _, _, _)
MatchInclusive(angle_diff, p1_name, p2_name, a) ==
  IF a > Len(ASPECTS) THEN 0
  ELSE LET is_luminary == \/ "Sun" \in {p1_name, p2_name}
                          \/ "Moon" \in {p1_name, p2_name}
           orb_rules == IF is_luminary THEN ORBS.major_luminary
                        ELSE ORBS.default
           orb == orb_rules[ASPECTS[a].name]
       IN  IF Abs(angle_diff - ASPECTS[a].degree) <= orb
           THEN a
           ELSE MatchInclusive(angle_diff, p1_name, p2_name, a + 1)

RECURSIVE MatchFrom(_, _, _, _)
MatchFrom(angle_diff, p1_name, p2_name, a) ==
  IF a > Len(ASPECTS) THEN 0
  ELSE LET is_luminary == \/ "Sun" \in {p1_name, p2_name}
                          \/ "Moon" \in {p1_name, p2_name}
           orb_rules == IF is_luminary THEN ORBS.major_luminary
                        ELSE ORBS.default
           orb == orb_rules[ASPECTS[a].name]
       IN  IF Abs(angle_diff - ASPECTS[a].degree) < orb
           THEN a
           ELSE MatchFrom(angle_diff, p1_name, p2_name, a + 1)

\* main.py 157-158
AngleDiff(pos1, pos2) ==
  LET d == Abs(pos1 - pos2) IN IF d > 180 THEN 360 - d ELSE d

\* the records appended for the pair (i, j) of the double loop (0-based)
PairAspects(chart1, chart2, i, j) ==
  LET p1 == chart1.planets[i + 1]
      p2 == chart2.planets[j + 1]
      angle_diff == AngleDiff(p1.position, p2.position)
      a == MatchFrom(angle_diff, p1.name, p2.name, 1)
  IN  IF a = 0 THEN <<>>
      ELSE <<[p1 |-> p1.name, p1Sign |-> p1.sign,
              p2 |-> p2.name, p2Sign |-> p2.sign,
              aspect |-> ASPECTS[a].name,
              orb |-> Abs(angle_diff - ASPECTS[a].degree),
              state |-> "Applying"]>>

SkipPairGt(chart1, chart2, i, j) == chart1.oid = chart2.oid /\ i > j

\* main.py 153: if chart1 is chart2 and i >= j: continue
SkipPair(chart1, chart2, i, j) == chart1.oid = chart2.oid /\ i >= j

\* the inner loop (over p2_keys) for a fixed i, from j on
RECURSIVE AspectRow(_, _, _, _)
AspectRow(chart1, chart2, i, j) ==
  IF j >= Len(chart2.planets) THEN <<>>
  ELSE (IF SkipPair(chart1, chart2, i, j) THEN <<>>
        ELSE PairAspects(chart1, chart2, i, j))
         \o AspectRow(chart1, chart2, i, j + 1)

\* the outer loop (over p1_keys) from i on
RECURSIVE AspectLoop(_, _, _)
AspectLoop(chart1, chart2, i) ==
  IF i >= Len(chart1.planets) THEN <<>>
  ELSE AspectRow(chart1, chart2, i, 0) \o AspectLoop(chart1, chart2, i + 1)

calculate_aspects(chart1, chart2) == AspectLoop(chart1, chart2, 0)

(***************************************************************************)
(* E. calculate_all_charts, one step per chart                             *)
(***************************************************************************)
\* planets["Sun"]
PlanetByName(planets, name) ==
  planets[CHOOSE k \in 1..Len(planets) : planets[k].name = name]

\* charts[name] = chart on the dict and on list(charts.keys())
PutChart(name, planets, houses) ==
  /\ charts' = (name :> ChartData(Len(chart_names) + 1, planets, houses)) @@ charts
  /\ chart_names' = Append(chart_names, name)

solar_arc_reversed(prog_planets, natal_planets) ==
  (PlanetByName(natal_planets, "Sun").position
     - PlanetByName(prog_planets, "Sun").position) % 360

\* main.py 195
solar_arc(prog_planets, natal_planets) ==
  (PlanetByName(prog_planets, "Sun").position
     - PlanetByName(natal_planets, "Sun").position) % 360

\* main.py 196-202
sa_planets(natal_planets, arc) ==
  [k \in 1..Len(natal_planets) |->
     LET p_data  == natal_planets[k]
         new_pos == (p_data.position + arc) % 360
     IN  [name     |-> p_data.name,
          sign     |-> SIGNS[(new_pos \div 30) + 1],
          degree   |-> new_pos % 30,
          isRetro  |-> p_data.isRetro,
          position |-> new_pos,
          house    |-> p_data.house]]

\* 'helio' in name, over the six chart names
HasHelio(name) == name = "heliocentric"

\* main.py 234
PairKey(c1_name, c2_name) ==
  CHART_TYPE_ABBREVIATIONS[c1_name] \o "-" \o CHART_TYPE_ABBREVIATIONS[c2_name]

SkipChartPairNone(c1_name, c2_name) == FALSE

\* main.py 230-232
SkipChartPair(c1_name, c2_name) ==
  \/ (HasHelio(c1_name) /\ ~HasHelio(c2_name))
  \/ (~HasHelio(c1_name) /\ HasHelio(c2_name))

\* main.py 227-235 from the flat index k = i * n + j on; a later assignment
\* to the same key replaces an earlier one
RECURSIVE AspectMatrix(_, _, _)
AspectMatrix(cs, names, k) ==
  LET n == Len(names)
  IN  IF k >= n * n THEN <<>>
      ELSE LET i == k \div n
               j == k % n
               c1_name == names[i + 1]
               c2_name == names[j + 1]
               rest == AspectMatrix(cs, names, k + 1)
           IN  IF j < i \/ SkipChartPair(c1_name, c2_name) THEN rest
               ELSE rest @@ (PairKey(c1_name, c2_name) :>
                               calculate_aspects(cs[c1_name], cs[c2_name]))

SampleDates ==
  <<[y |-> 2000, m |-> 2, d |-> 29], [y |-> 2000, m |-> 3, d |-> 1],
    [y |-> 2000, m |-> 2, d |-> 28], [y |-> 1999, m |-> 12, d |-> 31],
    [y |-> 2000, m |-> 12, d |-> 31], [y |-> 2001, m |-> 3, d |-> 1],
    [y |-> 1996, m |-> 2, d |-> 29]>>

NNatalDates == 2
NProgDates == 4

SampleHours == {0, 6, 23}
SampleLocations == {"Tokyo", "Longyearbyen", "Atlantis"}
SampleYears == {2001}

Requests ==
  [natal_date  : {SampleDates[i] : i \in 1..NNatalDates},
   natal_hour  : SampleHours,
   natal_location : SampleLocations,
   progressed_date : {SampleDates[i] : i \in 1..NProgDates},
   transit_date : {SampleDates[2]},
   heliocentric_date : {SampleDates[2]},
   sr_year : SampleYears,
   sr_location : SampleLocations]

NoRequest == [natal_date |-> SampleDates[1], natal_hour |-> 0,
              natal_location |-> "", progressed_date |-> SampleDates[1],
              transit_date |-> SampleDates[1],
              heliocentric_date |-> SampleDates[1],
              sr_year |-> 0, sr_location |-> ""]

\* create_horoscope is called with a request
ReceiveRequest ==
  /\ pc = "idle"
  /\ \E req \in Requests : request' = req
  /\ pc' = "natal"
  /\ UNCHANGED <<charts, chart_names, jd_natal, jd_progressed, aspects, events>>

\* main.py 178-184
BuildNatal ==
  /\ pc = "natal"
  /\ LET ll == get_lat_lon_from_location(request.natal_location)
         jd == get_julian_day(request.natal_date, request.natal_hour)
         natal_planets == calculate_planets(jd, PLANET_IDS, FALSE)
     IN  /\ jd_natal' = jd
         /\ IF HousesUndefined(ll[1])
            THEN \* swe.houses raises; create_horoscope answers HTTP 500
                 /\ pc' = "error"
                 /\ events' = events \cup {"natal_houses_failed"}
                 /\ UNCHANGED <<charts, chart_names>>
            ELSE LET natal_houses == SweHouses(jd, ll[1], ll[2])
                 IN  /\ PutChart("natal",
                                 assign_houses_to_planets(natal_planets, natal_houses),
                                 natal_houses)
                     /\ pc' = "transit"
                     /\ UNCHANGED events
  /\ UNCHANGED <<request, jd_progressed, aspects>>

\* main.py 186-187
BuildTransit ==
  /\ pc = "transit"
  /\ LET jd_transit == get_julian_day(request.transit_date, 12)
     IN  PutChart("transit", calculate_planets(jd_transit, PLANET_IDS, FALSE), <<>>)
  /\ pc' = "progressed"
  /\ UNCHANGED <<request, jd_natal, jd_progressed, aspects, events>>

\* main.py 189-193
BuildProgressed ==
  /\ pc = "progressed"
  /\ LET n == days_after_birth(request.natal_date, request.natal_hour,
                               request.progressed_date)
         jd == jd_natal + 24 * n
     IN  /\ jd_progressed' = jd
         /\ PutChart("progressed", calculate_planets(jd, PLANET_IDS, FALSE), <<>>)
  /\ pc' = "solarArc"
  /\ UNCHANGED <<request, jd_natal, aspects, events>>

\* main.py 195-203
BuildSolarArc ==
  /\ pc = "solarArc"
  /\ LET natal_planets == charts["natal"].planets
         arc == solar_arc(charts["progressed"].planets, natal_planets)
     IN  PutChart("solarArc", sa_planets(natal_planets, arc),
                  charts["natal"].houses)
  /\ pc' = "solarReturn"
  /\ UNCHANGED <<request, jd_natal, jd_progressed, aspects, events>>

BuildSolarReturnIgnoringRetCode ==
  /\ pc = "solarReturn"
  /\ LET sr_ll == get_lat_lon_from_location(request.sr_location)
     IN  \E ret_code \in {0, -1} :
           LET jd_solret == SolretMoment(jd_natal, request.sr_year)
               sr_planets == calculate_planets(jd_solret, PLANET_IDS, FALSE)
           IN  /\ events' = IF ret_code # 0 THEN events \cup {"solret_failed"}
                            ELSE events
               /\ PutChart("solarReturn", sr_planets, <<>>)
               /\ pc' = "heliocentric"
  /\ UNCHANGED <<request, jd_natal, jd_progressed, aspects>>

\* main.py 205-218
BuildSolarReturn ==
  /\ pc = "solarReturn"
  /\ LET sr_ll == get_lat_lon_from_location(request.sr_location)
     IN  \E ret_code \in {0, -1} :
           IF ret_code # 0
           THEN /\ PutChart("solarReturn", <<>>, <<>>)
                /\ events' = events \cup {"solret_failed"}
                /\ pc' = "heliocentric"
           ELSE LET jd_solret == SolretMoment(jd_natal, request.sr_year)
                    sr_planets == calculate_planets(jd_solret, PLANET_IDS, FALSE)
                IN  IF HousesUndefined(sr_ll[1])
                    THEN \* swe.houses raises; create_horoscope answers HTTP 500
                         /\ pc' = "error"
                         /\ events' = events \cup {"sr_houses_failed"}
                         /\ UNCHANGED <<charts, chart_names>>
                    ELSE LET sr_houses == SweHouses(jd_solret, sr_ll[1], sr_ll[2])
                         IN  /\ PutChart("solarReturn",
                                         assign_houses_to_planets(sr_planets, sr_houses),
                                         sr_houses)
                             /\ pc' = "heliocentric"
                             /\ UNCHANGED events
  /\ UNCHANGED <<request, jd_natal, jd_progressed, aspects>>

\* main.py 220-222
BuildHeliocentric ==
  /\ pc = "heliocentric"
  /\ LET jd_helio == get_julian_day(request.heliocentric_date, 12)
     IN  PutChart("heliocentric",
                  calculate_planets(jd_helio, HELIO_PLANET_IDS, TRUE), <<>>)
  /\ pc' = "aspects"
  /\ UNCHANGED <<request, jd_natal, jd_progressed, aspects, events>>

\* main.py 224-243: the aspect matrix, then the response is returned
BuildAspects ==
  /\ pc = "aspects"
  /\ aspects' = AspectMatrix(charts, chart_names, 0)
  /\ pc' = "done"
  /\ UNCHANGED <<request, charts, chart_names, jd_natal, jd_progressed, events>>

InitOrch ==
  /\ pc = "idle"
  /\ request = NoRequest
  /\ charts = <<>>
  /\ chart_names = <<>>
  /\ jd_natal = 0
  /\ jd_progressed = 0
  /\ aspects = <<>>
  /\ events = {}

InitFunIdle ==
  /\ fpc = "unused"
  /\ fin = <<>>
  /\ fout = <<>>

Init == InitOrch /\ InitFunIdle

Next ==
  \/ (ReceiveRequest /\ UNCHANGED funVars)
  \/ (BuildNatal /\ UNCHANGED funVars)
  \/ (BuildTransit /\ UNCHANGED funVars)
  \/ (BuildProgressed /\ UNCHANGED funVars)
  \/ (BuildSolarArc /\ UNCHANGED funVars)
  \/ (BuildSolarReturn /\ UNCHANGED funVars)
  \/ (BuildHeliocentric /\ UNCHANGED funVars)
  \/ (BuildAspects /\ UNCHANGED funVars)

Spec == Init /\ [][Next]_vars

(***************************************************************************)
(* F. The pure functions on drawn inputs                                   *)
(***************************************************************************)
\* PlanetData as calculate_planets builds it for a longitude
MakePlanet(name, longitude) ==
  [name     |-> name,
   sign     |-> SIGNS[(longitude \div 30) + 1],
   degree   |-> longitude % 30,
   isRetro  |-> FALSE,
   position |-> longitude,
   house    |-> NoHouse]

NAspectNames == 4
AspectBasePositions == {0, 357}

\* two-planet charts: a chart against itself, or against a second chart
\* that holds the same two names
AspectInputs ==
  { [chart1 |-> ChartData(1, <<MakePlanet(PLANET_IDS[a], pa),
                               MakePlanet(PLANET_IDS[b], pb)>>, <<>>),
     chart2 |-> IF same
                THEN ChartData(1, <<MakePlanet(PLANET_IDS[a], pa),
                                    MakePlanet(PLANET_IDS[b], pb)>>, <<>>)
                ELSE ChartData(2, <<MakePlanet(PLANET_IDS[a], pb),
                                    MakePlanet(PLANET_IDS[b], pa)>>, <<>>)] :
      <<a, b, pa, pb, same>> \in
        { t \in (1..NAspectNames) \X (1..NAspectNames) \X AspectBasePositions
                  \X (0..359) \X BOOLEAN : t[1] < t[2] } }

InitAspects ==
  /\ InitOrch
  /\ fpc = "aspects_in"
  /\ fin \in AspectInputs
  /\ fout = <<>>

ApplyAspects ==
  /\ fpc = "aspects_in"
  /\ fout' = calculate_aspects(fin.chart1, fin.chart2)
  /\ fpc' = "aspects_out"
  /\ UNCHANGED fin

NextAspects == ApplyAspects /\ UNCHANGED orchVars

SpecAspects == InitAspects /\ [][NextAspects]_vars

CuspGridN == 13

GridPoint(k) == (k * 360) \div CuspGridN

RECURSIVE SortedSeq(_)
SortedSeq(S) ==
  IF S = {} THEN <<>>
  ELSE LET m == CHOOSE x \in S : \A y \in S : x <= y
       IN  <<m>> \o SortedSeq(S \ {m})

\* well-formed cusp sequences: 12 distinct grid longitudes, ascending around
\* the circle from any starting cusp
CuspInputs ==
  { [i \in 1..12 |-> SortedSeq(S)[((i - 1 + r) % 12) + 1]] :
      <<S, r>> \in { G \in SUBSET { GridPoint(k) : k \in 0..(CuspGridN - 1) } :
                       Cardinality(G) = 12 } \X (0..11) }

InitHouses ==
  /\ InitOrch
  /\ fpc = "houses_in"
  /\ \E cusps \in CuspInputs, L \in 0..359 :
       fin = [planets |-> <<MakePlanet("Sun", L)>>, house_cusps |-> cusps]
  /\ fout = <<>>

ApplyHouses ==
  /\ fpc = "houses_in"
  /\ fout' = assign_houses_to_planets(fin.planets, fin.house_cusps)
  /\ fpc' = "houses_out"
  /\ UNCHANGED fin

NextHouses == ApplyHouses /\ UNCHANGED orchVars

SpecHouses == InitHouses /\ [][NextHouses]_vars

(***************************************************************************)
(* G. Properties                                                           *)
(***************************************************************************)
GeoCodes == {"N", "P", "T", "SA", "SR"}

\* the enumeration order the specification document gives
DocumentedOrder ==
  <<"natal", "progressed", "transit", "solarArc", "solarReturn", "heliocentric">>

DocumentedKeys ==
  { PairKey(DocumentedOrder[i], DocumentedOrder[j]) :
      <<i, j>> \in { t \in (1..6) \X (1..6) :
                       /\ t[1] <= t[2]
                       /\ HasHelio(DocumentedOrder[t[1]])
                            = HasHelio(DocumentedOrder[t[2]]) } }

\* C1: every completed request has exactly the keys code(i)-code(j), i <= j
\* in the order N, P, T, SA, SR, H, not exactly one of the two heliocentric
\* (so progressed/transit is stored under "P-T").
C1_KeysInDocumentedOrder ==
  pc = "done" => DOMAIN aspects = DocumentedKeys

HouseFailures == {"natal_houses_failed", "sr_houses_failed"}

\* C2: a failing house computation does not abort the request; the chart is
\* still returned with its planets and without houses.
C2_HouseFailureNotFatal ==
  (events \cap HouseFailures # {}) => pc # "error"

FullyPopulated(chart, planet_ids) ==
  /\ Len(chart.planets) = Len(planet_ids)
  /\ \A k \in 1..Len(planet_ids) : chart.planets[k].name = planet_ids[k]

\* C3: after a failed solar-return solve the request still completes: the
\* solarReturn chart has no planets and no houses, the other five charts are
\* fully populated, and every matrix entry of the solarReturn chart is
\* present and empty.
C3_SolretFailureDegrades ==
  "solret_failed" \in events =>
    /\ pc # "error"
    /\ charts["solarReturn"].planets = <<>>
    /\ charts["solarReturn"].houses = <<>>
    /\ pc = "done" =>
         /\ \A c \in {"natal", "progressed", "transit", "solarArc"} :
              FullyPopulated(charts[c], PLANET_IDS)
         /\ FullyPopulated(charts["heliocentric"], HELIO_PLANET_IDS)
         /\ \A c \in GeoCodes \ {"SR"} :
              /\ (c \o "-SR") \in DOMAIN aspects \/ ("SR-" \o c) \in DOMAIN aspects
              /\ (c \o "-SR") \in DOMAIN aspects => aspects[c \o "-SR"] = <<>>
              /\ ("SR-" \o c) \in DOMAIN aspects => aspects["SR-" \o c] = <<>>
         /\ "SR-SR" \in DOMAIN aspects
         /\ aspects["SR-SR"] = <<>>

C3_Witness ==
  /\ pc = "done"
  /\ "solret_failed" \in events
  /\ aspects["N-N"] # <<>>

\* C4: no key of the matrix pairs H with a geocentric code, in either
\* position, and "H-H" is present.
C4_HelioOnlyWithItself ==
  pc = "done" =>
    /\ "H-H" \in DOMAIN aspects
    /\ \A c \in GeoCodes :
         /\ ("H-" \o c) \notin DOMAIN aspects
         /\ (c \o "-H") \notin DOMAIN aspects

C4_Witness ==
  /\ pc = "done"
  /\ "H-H" \in DOMAIN aspects
  /\ "N-SA" \in DOMAIN aspects

SelfKeys == { c \o "-" \o c : c \in GeoCodes \cup {"H"} }

NoSelfRecord(list) == \A k \in 1..Len(list) : list[k].p1 # list[k].p2

EachPairOnce(list) ==
  \A k, l \in 1..Len(list) :
    k # l => {list[k].p1, list[k].p2} # {list[l].p1, list[l].p2}

\* C5 as stated: no record of any entry, self-pair or cross-chart, has
\* planet1 = planet2, and self-pair entries hold each unordered pair once.
C5_NoNamesakeAnywhere ==
  pc = "done" =>
    /\ \A key \in DOMAIN aspects : NoSelfRecord(aspects[key])
    /\ \A key \in DOMAIN aspects \cap SelfKeys : EachPairOnce(aspects[key])

\* C5 amended: in every self-pair entry no record has planet1 = planet2 and
\* each unordered pair of planets appears in at most one record.
C5_SelfEntriesIrreflexive ==
  pc = "done" =>
    \A key \in DOMAIN aspects \cap SelfKeys :
      /\ NoSelfRecord(aspects[key])
      /\ EachPairOnce(aspects[key])

C5_Witness ==
  /\ pc = "done"
  /\ Len(aspects["N-N"]) >= 2
  /\ \E k \in 1..Len(aspects["N-SR"]) :
       aspects["N-SR"][k].p1 = aspects["N-SR"][k].p2

\* the record's threshold: the major-luminary table if either planet of the
\* record is Sun or Moon, the default table otherwise
Threshold(kind, p1_name, p2_name) ==
  IF {p1_name, p2_name} \cap {"Sun", "Moon"} # {}
  THEN (CASE kind = "Conjunction" -> 8 [] kind = "Opposition" -> 8
          [] kind = "Trine" -> 7 [] kind = "Square" -> 7 [] kind = "Sextile" -> 5)
  ELSE (CASE kind = "Conjunction" -> 6 [] kind = "Opposition" -> 6
          [] kind = "Trine" -> 5 [] kind = "Square" -> 5 [] kind = "Sextile" -> 4)

BaseAngle(kind) ==
  CASE kind = "Conjunction" -> 0 [] kind = "Opposition" -> 180
    [] kind = "Trine" -> 120 [] kind = "Square" -> 90 [] kind = "Sextile" -> 60

\* the shorter arc between two longitudes
Separation(pos1, pos2) ==
  LET d == (pos1 - pos2) % 360 IN IF d <= 360 - d THEN d ELSE 360 - d

\* separation of the two planets a record of the drawn input names
RecordSeparation(r) ==
  Separation(PlanetByName(fin.chart1.planets, r.p1).position,
             PlanetByName(fin.chart2.planets, r.p2).position)

\* C6: every emitted record has 0 <= orb < threshold, orb being the distance
\* of the folded separation (in [0,180]) from the base angle of its kind and
\* the threshold taken by luminary-ness of the pair; a deviation equal to
\* the threshold yields no record.
C6_OrbBelowThreshold ==
  fpc = "aspects_out" =>
    \A k \in 1..Len(fout) :
      LET r   == fout[k]
          sep == RecordSeparation(r)
      IN  /\ sep \in 0..180
          /\ r.orb = Abs(sep - BaseAngle(r.aspect))
          /\ 0 <= r.orb
          /\ r.orb < Threshold(r.aspect, r.p1, r.p2)

\* Sun against Sun 6 degrees apart is a Conjunction with orb 6 (below 8),
\* Mercury against Mercury 6 degrees apart (equal to 6) is no record
C6_Witness ==
  /\ fpc = "aspects_out"
  /\ fin.chart1.oid # fin.chart2.oid
  /\ \E k \in 1..Len(fout) :
       /\ fout[k].p1 = "Sun" /\ fout[k].p2 = "Sun"
       /\ fout[k].aspect = "Conjunction" /\ fout[k].orb = 6
  /\ \E i \in 1..2 :
       /\ fin.chart1.planets[i].name = "Mercury"
       /\ Separation(fin.chart1.planets[i].position,
                     PlanetByName(fin.chart2.planets, "Mercury").position) = 6
  /\ \A k \in 1..Len(fout) : ~(fout[k].p1 = "Mercury" /\ fout[k].p2 = "Mercury")

\* the pairs of planet indices the double loop visits
VisitedPairs ==
  { t \in (1..Len(fin.chart1.planets)) \X (1..Len(fin.chart2.planets)) :
      fin.chart1.oid = fin.chart2.oid => t[1] < t[2] }

\* aspect kinds (indices of ASPECTS) whose acceptance window holds sep
Windows(sep, p1_name, p2_name) ==
  { a \in 1..Len(ASPECTS) :
      Abs(sep - ASPECTS[a].degree) <
        (IF {p1_name, p2_name} \cap {"Sun", "Moon"} # {}
         THEN ORBS.major_luminary ELSE ORBS.default)[ASPECTS[a].name] }

\* the kind a nearest-base-angle match selects among the windows holding sep
NearestKind(sep, W) ==
  ASPECTS[CHOOSE a \in W :
            \A b \in W : Abs(sep - ASPECTS[a].degree) <= Abs(sep - ASPECTS[b].degree)].name

\* C10: for every planet pair at most one acceptance window holds the
\* separation, at most one record is emitted, and the kind of the record
\* (the first match in priority order) is the nearest-base-angle kind.
C10_FirstMatchIsNearest ==
  fpc = "aspects_out" =>
    \A t \in VisitedPairs :
      LET p1   == fin.chart1.planets[t[1]]
          p2   == fin.chart2.planets[t[2]]
          sep  == Separation(p1.position, p2.position)
          W    == Windows(sep, p1.name, p2.name)
          recs == { k \in 1..Len(fout) :
                      fout[k].p1 = p1.name /\ fout[k].p2 = p2.name }
      IN  /\ Cardinality(W) <= 1
          /\ Cardinality(recs) <= 1
          /\ (W = {}) = (recs = {})
          /\ \A k \in recs : fout[k].aspect = NearestKind(sep, W)

C10_Witness ==
  /\ fpc = "aspects_out"
  /\ fin.chart1.oid = fin.chart2.oid
  /\ Len(fout) = 1
  /\ fout[1].aspect = "Square"
  /\ fout[1].orb = 6

\* L lies in sector i (1-based) of the circle cut by the cusps
InSector(L, cusps, i) ==
  ((L - cusps[i]) % 360) < ((cusps[(i % 12) + 1] - cusps[i]) % 360)

\* C7: for a well-formed cusp sequence and L in [0,360) the planet gets
\* exactly one house, in 1..12, the number of the unique sector
\* [cusp[i], cusp[i+1]) that contains L.
C7_ExactlyOneHouse ==
  fpc = "houses_out" =>
    \A k \in 1..Len(fout) :
      LET L == fin.planets[k].position
          S == { i \in 1..12 : InSector(L, fin.house_cusps, i) }
      IN  /\ fout[k].house \in 1..12
          /\ Cardinality(S) = 1
          /\ fout[k].house \in S
          /\ fout[k].position = L

\* a longitude equal to the cusp that opens the sector crossing 0 degrees
C7_Witness ==
  /\ fpc = "houses_out"
  /\ \E i \in 1..12 :
       /\ fin.house_cusps[i] > fin.house_cusps[(i % 12) + 1]
       /\ fin.planets[1].position = fin.house_cusps[i]
       /\ fout[1].house = i

\* C8: the solarArc chart has the natal planet names, each position is
\* (natal position + arc) mod 360 with arc = (progressed Sun - natal Sun)
\* mod 360, sign and degree follow the position, house and isRetro are the
\* natal planet's, and the cusps are the natal cusps.
C8_SolarArcProjection ==
  "solarArc" \in DOMAIN charts =>
    LET natal == charts["natal"]
        sa    == charts["solarArc"]
        arc   == (PlanetByName(charts["progressed"].planets, "Sun").position
                    - PlanetByName(natal.planets, "Sun").position) % 360
    IN  /\ Len(sa.planets) = Len(natal.planets)
        /\ sa.houses = natal.houses
        /\ \A k \in 1..Len(natal.planets) :
             LET n == natal.planets[k]
                 p == sa.planets[k]
             IN  /\ p.name = n.name
                 /\ p.position = (n.position + arc) % 360
                 /\ p.position \in 0..359
                 /\ p.sign = SIGNS[(p.position \div 30) + 1]
                 /\ p.degree = p.position % 30
                 /\ p.house = n.house
                 /\ p.house = HouseFrom(n.position, natal.houses, 0, NoHouse)
                 /\ p.isRetro = n.isRetro

\* a natal planet at 359 degrees carried over 0 by a non-zero arc
C8_Witness ==
  /\ pc = "done"
  /\ \E k \in 1..Len(charts["natal"].planets) :
       /\ charts["natal"].planets[k].position = 359
       /\ charts["solarArc"].planets[k].position < 359
       /\ charts["solarArc"].planets[k].sign = "Aries"
       /\ charts["natal"].planets[k].house \in 1..12

\* the first day of the month after date's
NextMonthStart(date) ==
  IF date.m < 12 THEN [y |-> date.y, m |-> date.m + 1, d |-> 1]
  ELSE [y |-> date.y + 1, m |-> 1, d |-> 1]

DateBefore(a, b) ==
  \/ a.y < b.y
  \/ (a.y = b.y /\ a.m < b.m)
  \/ (a.y = b.y /\ a.m = b.m /\ a.d < b.d)

\* number of midnights from date a up to date b, a not after b, counted
\* month by month
RECURSIVE DaysUpTo(_, _)
DaysUpTo(a, b) ==
  IF a.y = b.y /\ a.m = b.m THEN b.d - a.d
  ELSE (DaysInMonth(a.y, a.m) - a.d + 1) + DaysUpTo(NextMonthStart(a), b)

WholeDays(birth, target) ==
  IF DateBefore(target, birth) THEN -DaysUpTo(target, birth)
  ELSE DaysUpTo(birth, target)

\* C9: the progressed moment is the natal Julian day plus N days, N the
\* whole-day difference between target date and birth date at midnight:
\* independent of the birth time, 0 on the birth date, negative before it.
C9_ProgressedMoment ==
  "progressed" \in DOMAIN charts =>
    /\ jd_natal = get_julian_day(request.natal_date, request.natal_hour)
    /\ jd_progressed
         = jd_natal + 24 * WholeDays(request.natal_date, request.progressed_date)
    /\ request.progressed_date = request.natal_date => jd_progressed = jd_natal
    /\ DateBefore(request.progressed_date, request.natal_date)
         => jd_progressed < jd_natal
    /\ charts["progressed"].planets
         = calculate_planets(jd_progressed, PLANET_IDS, FALSE)

C9_Witness ==
  /\ pc = "done"
  /\ request.natal_hour = 23
  /\ DateBefore(request.progressed_date, request.natal_date)
  /\ jd_progressed = jd_natal - 24

====
